---- MODULE Spec2Model ----
(***************************************************************************)
(* Smart-DNS server start-up (src/main.rs, run_server) and the request     *)
(* pipeline it assembles.                                                  *)
(*                                                                         *)
(* Spec      : run_server step by step -- locate and load the              *)
(*             configuration, start the runtime, add the stages to the     *)
(*             middleware builder, build the handler, create the server,   *)
(*             bind the UDP sockets, bind the TCP listeners, serve, exit.  *)
(* SpecServe : the running server -- requests dispatched through the       *)
(*             chain run_server built for the loaded configuration.        *)
(*                                                                         *)
(* Option<T> values are sequences of length 0 (None) or 1 (Some).          *)
(***************************************************************************)
EXTENDS Naturals, Sequences, FiniteSets

VARIABLES
    pc,                 \* position of the main thread inside run_server
    target_os,          \* the cfg_if! branch this build was compiled with
    conf,               \* the --conf argument: Option<PathBuf>
    fs,                 \* the candidate paths that exist on disk
    loaded,             \* the files handed to SmartDnsConfig::load_from_file
    cfg,                \* the loaded SmartDnsConfig: Option
    step,               \* index of the next `with` decision of the build block
    middleware_builder, \* stages added to the DnsMiddlewareBuilder so far
    middleware,         \* the built request handler: Option<chain>
    builds,             \* how many times middleware_builder.build has run
    server,             \* ServerFuture::new has run
    udp_socket_addrs,   \* the UDP addresses of cfg.binds not yet iterated
    tcp_socket_addrs,   \* the TCP addresses of cfg.binds_tcp not yet iterated
    udpSockets,         \* sockets handed to server.register_socket
    tcpListeners,       \* listeners handed to server.register_listener
    entered,            \* block_until_done has been entered
    serveResult,        \* what block_until_done returned: Option
    panicAt,            \* the expect/panic! that fired, "none" if none
    exitCode,           \* the process's exit status: Option
    cache,              \* the Cache stage's store: name -> [ttl, rcode]
    last                \* the last request handled and how: Option

vars == <<pc, target_os, conf, fs, loaded, cfg, step, middleware_builder,
          middleware, builds, server, udp_socket_addrs, tcp_socket_addrs,
          udpSockets,
          tcpListeners, entered, serveResult, panicAt, exitCode, cache, last>>

startupVars == <<pc, target_os, conf, fs, loaded, cfg, step,
                 middleware_builder, middleware, builds, server, udp_socket_addrs,
                 tcp_socket_addrs, udpSockets, tcpListeners, entered, serveResult,
                 panicAt, exitCode>>

(***************************************************************************)
(* Bounds of the model.                                                    *)
(***************************************************************************)
\* most addresses in cfg.binds, and in cfg.binds_tcp
MaxBinds == 2
\* largest cfg.cache_size()
MaxCacheSize == 2
\* largest TTL (in clock ticks) an upstream answer carries
MaxTTL == 2

\* exit status of a Rust process whose main thread panics
PanicExitCode == 101

SeqsUpTo(S, n) == UNION {[1..k -> S] : k \in 0..n}

(***************************************************************************)
(* Names, rules and configurations.                                        *)
(***************************************************************************)
Names == {"localhost", "ads.example", "example.com"}

\* names the Zone stage serves locally
ZoneNames == {"localhost"}

RuleKinds == {"static", "blocked"}

\* cfg.address_rules, as the map from a domain to what its rule says
RuleSets(D) == UNION {[E -> RuleKinds] : E \in SUBSET D}

NoRules == [n \in {} |-> "static"]

Addrs == {"0.0.0.0:53"}

ConfigSet(rules, udp, tcp) ==
    [audit_enable : BOOLEAN,
     audit_file : {<<>>, <<"audit.log">>},
     address_rules : rules,
     cache_size : 0..MaxCacheSize,
     speed_check_mode : {<<>>, <<"ping">>},
     binds : udp,
     binds_tcp : tcp]

\* the configurations a file may hold, as far as start-up reads them
StartupConfigs ==
    ConfigSet({NoRules, [n \in {"ads.example"} |-> "static"]},
              SeqsUpTo(Addrs, MaxBinds), SeqsUpTo(Addrs, MaxBinds))

\* the configurations the serving model runs under
ServeConfigs ==
    ConfigSet(RuleSets({"localhost", "ads.example"}),
              {<<"0.0.0.0:53">>}, {<<>>})

(***************************************************************************)
(* Locating the configuration file.                                        *)
(***************************************************************************)
Platforms == {"android", "windows", "other"}

candidate_path(os) ==
    CASE os = "android" ->
           <<"/data/data/com.termux/files/usr/etc/smartdns.conf",
             "/data/data/com.termux/files/usr/etc/smartdns/smartdns.conf">>
      [] os = "windows" -> <<"">>
      [] OTHER ->
           <<"/etc/smartdns.conf",
             "/etc/smartdns/smartdns.conf",
             "/usr/local/etc/smartdns.conf",
             "/usr/local/etc/smartdns/smartdns.conf">>

Range(s) == {s[i] : i \in 1..Len(s)}

\* .filter(|p| p.exists()): the candidates that exist, in list order
ExistingCandidates(cands, files) ==
    LET exists(p) == p \in files
    IN  SelectSeq(cands, exists)

\* a bug: the iterator is drained, so every existing candidate is loaded
LoadedCandidatesEager(cands, files) == ExistingCandidates(cands, files)

\* .filter(..).map(load_from_file).next(): the iterator is lazy, so the
\* closure that loads a file runs for the first existing candidate only
LoadedCandidates(cands, files) ==
    LET found == ExistingCandidates(cands, files)
    IN  IF found = <<>> THEN <<>> ELSE <<Head(found)>>

(***************************************************************************)
(* The build block: which stage each `with` adds, and when.                *)
(***************************************************************************)
\* order of the `with` calls, NameServer moved ahead of SpeedTest
BuildStepsNsEarly ==
    <<"Audit", "Zone", "Address", "Cache", "NameServer", "SpeedTest">>

\* order of the `with` calls, Cache and Address swapped
BuildStepsCacheFirst ==
    <<"Audit", "Zone", "Cache", "Address", "SpeedTest", "NameServer">>

\* order of the `with` calls, SpeedTest moved ahead of Cache
BuildStepsSpdtFirst ==
    <<"Audit", "Zone", "Address", "SpeedTest", "Cache", "NameServer">>

\* order of the `with` calls, Audit moved behind Zone
BuildStepsZoneFirst ==
    <<"Zone", "Audit", "Address", "Cache", "SpeedTest", "NameServer">>

\* order of the `with` calls, Address moved behind Cache and SpeedTest
BuildStepsAddrLate ==
    <<"Audit", "Zone", "Cache", "SpeedTest", "Address", "NameServer">>

\* the `with` calls of the build block, in program order
BuildSteps ==
    <<"Audit", "Zone", "Address", "Cache", "SpeedTest", "NameServer">>

\* a bug: audit_enable alone adds the Audit stage
StageEnabledAuditFlagOnly(c, s) ==
    CASE s = "Audit" -> c.audit_enable
      [] s = "Zone" -> TRUE
      [] s = "Address" -> Cardinality(DOMAIN c.address_rules) > 0
      [] s = "Cache" -> c.cache_size > 0
      [] s = "SpeedTest" -> c.speed_check_mode # <<>>
      [] s = "NameServer" -> TRUE

\* the condition guarding each `with` call
StageEnabled(c, s) ==
    CASE s = "Audit" -> c.audit_enable /\ c.audit_file # <<>>
      [] s = "Zone" -> TRUE
      [] s = "Address" -> Cardinality(DOMAIN c.address_rules) > 0
      [] s = "Cache" -> c.cache_size > 0
      [] s = "SpeedTest" -> c.speed_check_mode # <<>>
      [] s = "NameServer" -> TRUE

\* DnsMiddlewareBuilder::with: the stage goes behind those already added
With(b, s) == Append(b, s)

\* one `with` decision of the build block
NextBuilder(c, b, i) ==
    IF StageEnabled(c, BuildSteps[i]) THEN With(b, BuildSteps[i]) ELSE b

RECURSIVE BuildFrom(_, _, _)
BuildFrom(c, b, i) ==
    IF i > Len(BuildSteps) THEN b
    ELSE BuildFrom(c, NextBuilder(c, b, i), i + 1)

\* the chain the whole build block yields for configuration c
BuildChain(c) == BuildFrom(c, <<>>, 1)

(***************************************************************************)
(* Start-up: run_server, one action per step.                              *)
(***************************************************************************)
EmptyCache == [n \in Names |-> [ttl |-> 0, rcode |-> "NOERROR"]]

Init ==
    /\ pc = "load"
    /\ target_os \in Platforms
    /\ conf \in {<<>>, <<"custom.conf">>}
    \* Path::new("").exists() is false: the empty path never exists
    /\ fs \in SUBSET (Range(candidate_path(target_os)) \ {""})
    /\ loaded = <<>>
    /\ cfg = <<>>
    /\ step = 1
    /\ middleware_builder = <<>>
    /\ middleware = <<>>
    /\ builds = 0
    /\ server = FALSE
    /\ udp_socket_addrs = <<>>
    /\ tcp_socket_addrs = <<>>
    /\ udpSockets = <<>>
    /\ tcpListeners = <<>>
    /\ entered = FALSE
    /\ serveResult = <<>>
    /\ panicAt = "none"
    /\ exitCode = <<>>
    /\ cache = EmptyCache
    /\ last = <<>>

\* a panic on the main thread: the process ends with Rust's panic status
Panic(at) ==
    /\ pc' = "panicked"
    /\ panicAt' = at
    /\ exitCode' = <<PanicExitCode>>

\* lines 108-141: load --conf, or the first candidate that exists
LoadConfig ==
    /\ pc = "load"
    /\ \/ /\ conf # <<>>
          /\ loaded' = conf
          /\ \E c \in StartupConfigs : cfg' = <<c>>
          /\ pc' = "runtime"
          /\ UNCHANGED <<panicAt, exitCode>>
       \/ /\ conf = <<>>
          /\ LoadedCandidates(candidate_path(target_os), fs) # <<>>
          /\ loaded' = LoadedCandidates(candidate_path(target_os), fs)
          /\ \E c \in StartupConfigs : cfg' = <<c>>
          /\ pc' = "runtime"
          /\ UNCHANGED <<panicAt, exitCode>>
       \/ /\ conf = <<>>
          /\ LoadedCandidates(candidate_path(target_os), fs) = <<>>
          /\ Panic("no_config")
          /\ UNCHANGED <<loaded, cfg>>
    /\ UNCHANGED <<target_os, conf, fs, step, middleware_builder, middleware,
                   builds, server, udp_socket_addrs, tcp_socket_addrs, udpSockets,
                   tcpListeners, entered, serveResult, cache, last>>

\* lines 155-174: the Tokio runtime, the address iterators, the builder
InitRuntime ==
    /\ pc = "runtime"
    /\ \/ /\ pc' = "build"
          /\ udp_socket_addrs' = cfg[1].binds
          /\ tcp_socket_addrs' = cfg[1].binds_tcp
          /\ middleware_builder' = <<>>
          /\ step' = 1
          /\ UNCHANGED <<panicAt, exitCode>>
       \/ /\ Panic("runtime")
          /\ UNCHANGED <<udp_socket_addrs, tcp_socket_addrs, middleware_builder, step>>
    /\ UNCHANGED <<target_os, conf, fs, loaded, cfg, middleware, builds,
                   server, udpSockets, tcpListeners, entered, serveResult,
                   cache, last>>

\* lines 177-203: the next `with` decision
BuildStep ==
    /\ pc = "build"
    /\ step <= Len(BuildSteps)
    /\ middleware_builder' = NextBuilder(cfg[1], middleware_builder, step)
    /\ step' = step + 1
    /\ UNCHANGED <<pc, target_os, conf, fs, loaded, cfg, middleware, builds,
                   server, udp_socket_addrs, tcp_socket_addrs, udpSockets, tcpListeners,
                   entered, serveResult, panicAt, exitCode, cache, last>>

\* a bug: build() runs as soon as Zone is in the builder
BuildHandlerEarly ==
    /\ pc = "build"
    /\ step > 2
    /\ middleware' = <<middleware_builder>>
    /\ middleware_builder' = <<>>
    /\ builds' = builds + 1
    /\ pc' = "server"
    /\ UNCHANGED <<target_os, conf, fs, loaded, cfg, step, server, udp_socket_addrs,
                   tcp_socket_addrs, udpSockets, tcpListeners, entered, serveResult,
                   panicAt, exitCode, cache, last>>

\* line 205: middleware_builder.build consumes the builder
BuildHandler ==
    /\ pc = "build"
    /\ step > Len(BuildSteps)
    /\ middleware' = <<middleware_builder>>
    /\ middleware_builder' = <<>>
    /\ builds' = builds + 1
    /\ pc' = "server"
    /\ UNCHANGED <<target_os, conf, fs, loaded, cfg, step, server, udp_socket_addrs,
                   tcp_socket_addrs, udpSockets, tcpListeners, entered, serveResult,
                   panicAt, exitCode, cache, last>>

\* line 208: ServerFuture::new(middleware)
ServerNew ==
    /\ pc = "server"
    /\ server' = TRUE
    /\ pc' = "bind"
    /\ UNCHANGED <<target_os, conf, fs, loaded, cfg, step, middleware_builder,
                   middleware, builds, udp_socket_addrs, tcp_socket_addrs, udpSockets,
                   tcpListeners, entered, serveResult, panicAt, exitCode,
                   cache, last>>

\* a bug: an address that cannot be bound is skipped
BindUdpSkipFailure ==
    /\ pc = "bind"
    /\ udp_socket_addrs # <<>>
    /\ \/ /\ udpSockets' = Append(udpSockets, Head(udp_socket_addrs))
          /\ udp_socket_addrs' = Tail(udp_socket_addrs)
          /\ UNCHANGED <<pc, panicAt, exitCode>>
       \/ /\ udp_socket_addrs' = Tail(udp_socket_addrs)
          /\ panicAt' = "udp_bind"
          /\ UNCHANGED <<pc, udpSockets, exitCode>>
       \/ /\ Panic("udp_local_addr")
          /\ UNCHANGED <<udpSockets, udp_socket_addrs>>
    /\ UNCHANGED <<target_os, conf, fs, loaded, cfg, step, middleware_builder,
                   middleware, builds, server, tcp_socket_addrs, tcpListeners,
                   entered, serveResult, cache, last>>

\* lines 211-226: one turn of the UDP loop
BindUdp ==
    /\ pc = "bind"
    /\ udp_socket_addrs # <<>>
    /\ \/ /\ udpSockets' = Append(udpSockets, Head(udp_socket_addrs))
          /\ udp_socket_addrs' = Tail(udp_socket_addrs)
          /\ UNCHANGED <<pc, panicAt, exitCode>>
       \/ /\ Panic("udp_bind")
          /\ UNCHANGED <<udpSockets, udp_socket_addrs>>
       \/ /\ Panic("udp_local_addr")
          /\ UNCHANGED <<udpSockets, udp_socket_addrs>>
    /\ UNCHANGED <<target_os, conf, fs, loaded, cfg, step, middleware_builder,
                   middleware, builds, server, tcp_socket_addrs, tcpListeners,
                   entered, serveResult, cache, last>>

\* lines 229-244: one turn of the TCP loop, which follows the UDP loop
BindTcp ==
    /\ pc = "bind"
    /\ udp_socket_addrs = <<>>
    /\ tcp_socket_addrs # <<>>
    /\ \/ /\ tcpListeners' = Append(tcpListeners, Head(tcp_socket_addrs))
          /\ tcp_socket_addrs' = Tail(tcp_socket_addrs)
          /\ UNCHANGED <<pc, panicAt, exitCode>>
       \/ /\ Panic("tcp_bind")
          /\ UNCHANGED <<tcpListeners, tcp_socket_addrs>>
       \/ /\ Panic("tcp_local_addr")
          /\ UNCHANGED <<tcpListeners, tcp_socket_addrs>>
    /\ UNCHANGED <<target_os, conf, fs, loaded, cfg, step, middleware_builder,
                   middleware, builds, server, udp_socket_addrs, udpSockets,
                   entered, serveResult, cache, last>>

\* lines 248-252: both loops are over, block_until_done is entered
Serve ==
    /\ pc = "bind"
    /\ udp_socket_addrs = <<>>
    /\ tcp_socket_addrs = <<>>
    /\ pc' = "serving"
    /\ entered' = TRUE
    /\ UNCHANGED <<target_os, conf, fs, loaded, cfg, step, middleware_builder,
                   middleware, builds, server, udp_socket_addrs, tcp_socket_addrs,
                   udpSockets, tcpListeners, serveResult, panicAt, exitCode,
                   cache, last>>

\* a bug: the arms of the match on block_until_done's result are swapped
ServeDoneSwapped ==
    /\ pc = "serving"
    /\ \/ /\ serveResult' = <<"Err">>
          /\ pc' = "exited"
          /\ exitCode' = <<0>>
          /\ UNCHANGED panicAt
       \/ /\ serveResult' = <<"Ok">>
          /\ Panic("serve")
    /\ UNCHANGED <<target_os, conf, fs, loaded, cfg, step, middleware_builder,
                   middleware, builds, server, udp_socket_addrs, tcp_socket_addrs,
                   udpSockets, tcpListeners, entered, cache, last>>

\* lines 252-264: block_until_done returns; run_server and main return, or panic
ServeDone ==
    /\ pc = "serving"
    /\ \/ /\ serveResult' = <<"Ok">>
          /\ pc' = "exited"
          /\ exitCode' = <<0>>
          /\ UNCHANGED panicAt
       \/ /\ serveResult' = <<"Err">>
          /\ Panic("serve")
    /\ UNCHANGED <<target_os, conf, fs, loaded, cfg, step, middleware_builder,
                   middleware, builds, server, udp_socket_addrs, tcp_socket_addrs,
                   udpSockets, tcpListeners, entered, cache, last>>

Next ==
    \/ LoadConfig
    \/ InitRuntime
    \/ BuildStep
    \/ BuildHandler
    \/ ServerNew
    \/ BindUdp
    \/ BindTcp
    \/ Serve
    \/ ServeDone

Spec == Init /\ [][Next]_vars

(***************************************************************************)
(* The stages.  handle(request, next) -> response; `next` is what the rest *)
(* of the chain returns when the stage delegates to it.                    *)
(***************************************************************************)
SuccessRcodes == {"NOERROR", "NXDOMAIN"}

\* what the upstream client may return for one query
UpstreamOutcomes ==
    [rcode : SuccessRcodes, ttl : 1..MaxTTL]
        \cup {[rcode |-> "SERVFAIL", ttl |-> 0]}

\* a response produced by stage s itself, without calling next
Answer(s, rcode, ttl, c) ==
    [trace |-> <<s>>, by |-> s, rcode |-> rcode, ttl |-> ttl, upstream |-> 0,
     lookup |-> "none", inserted |-> FALSE, logged |-> FALSE, cache |-> c]

\* stage s delegated: it was invoked ahead of everything next invoked
Delegated(s, next) == [next EXCEPT !.trace = <<s>> \o @]

\* records the request, always calls next, logs the result
AuditHandle(next) == [Delegated("Audit", next) EXCEPT !.logged = TRUE]

\* serves locally defined names, short-circuits on match
ZoneHandle(name, next, c) ==
    IF name \in ZoneNames
    THEN Answer("Zone", "NOERROR", MaxTTL, c)
    ELSE Delegated("Zone", next)

\* static-address rule: the literal; blocked rule: NXDOMAIN; else next
AddressHandle(rules, name, next, c) ==
    IF name \in DOMAIN rules
    THEN Answer("Address",
                IF rules[name] = "static" THEN "NOERROR" ELSE "NXDOMAIN",
                MaxTTL, c)
    ELSE Delegated("Address", next)

\* names with an unexpired entry
Fresh(c) == {n \in Names : c[n].ttl > 0}

\* insert(fingerprint, response, ttl): a full cache evicts an entry first
CacheInsert(c, cap, name, rcode, ttl, victim) ==
    LET full == name \notin Fresh(c) /\ Cardinality(Fresh(c)) >= cap
        out == IF victim \in Fresh(c) THEN victim
               ELSE CHOOSE n \in Fresh(c) : TRUE
        kept == IF full THEN [c EXCEPT ![out] = [ttl |-> 0, rcode |-> "NOERROR"]]
                ELSE c
    IN  [kept EXCEPT ![name] = [ttl |-> ttl, rcode |-> rcode]]

\* serves on hit; on miss, calls next, then inserts on success
CacheHandle(cap, name, next, victim, c) ==
    IF name \in Fresh(c)
    THEN [Answer("Cache", c[name].rcode, c[name].ttl, c)
            EXCEPT !.lookup = "hit"]
    ELSE LET r == [Delegated("Cache", next) EXCEPT !.lookup = "miss"]
         IN  IF r.rcode \in SuccessRcodes
             THEN [r EXCEPT !.inserted = TRUE,
                            !.cache = CacheInsert(r.cache, cap, name,
                                                  r.rcode, r.ttl, victim)]
             ELSE r

\* calls next, then reorders the A/AAAA answers
SpeedTestHandle(next) == Delegated("SpeedTest", next)

\* terminal: calls the upstream client, never calls next
NameServerHandle(up, c) ==
    [Answer("NameServer", up.rcode, up.ttl, c) EXCEPT !.upstream = 1]

\* next called with no stage left
EndOfChain(c) ==
    [trace |-> <<>>, by |-> "none", rcode |-> "SERVFAIL", ttl |-> 0,
     upstream |-> 0, lookup |-> "none", inserted |-> FALSE, logged |-> FALSE,
     cache |-> c]

\* the chain from its i-th stage on, for one request
RECURSIVE Run(_, _, _, _, _, _, _)
Run(chain, i, c, name, up, victim, store) ==
    IF i > Len(chain) THEN EndOfChain(store)
    ELSE LET next == Run(chain, i + 1, c, name, up, victim, store)
         IN  CASE chain[i] = "Audit" -> AuditHandle(next)
               [] chain[i] = "Zone" -> ZoneHandle(name, next, store)
               [] chain[i] = "Address" ->
                      AddressHandle(c.address_rules, name, next, store)
               [] chain[i] = "Cache" ->
                      CacheHandle(c.cache_size, name, next, victim, store)
               [] chain[i] = "SpeedTest" -> SpeedTestHandle(next)
               [] chain[i] = "NameServer" -> NameServerHandle(up, store)

(***************************************************************************)
(* The running server.                                                     *)
(***************************************************************************)
\* run_server has loaded c, built its chain, bound its addresses and
\* entered block_until_done
InitServe ==
    /\ pc = "serving"
    /\ target_os = "other"
    /\ conf = <<"custom.conf">>
    /\ fs = {}
    /\ loaded = conf
    /\ cfg \in {<<c>> : c \in ServeConfigs}
    /\ step = Len(BuildSteps) + 1
    /\ middleware_builder = <<>>
    /\ middleware = <<BuildChain(cfg[1])>>
    /\ builds = 1
    /\ server = TRUE
    /\ udp_socket_addrs = <<>>
    /\ tcp_socket_addrs = <<>>
    /\ udpSockets = cfg[1].binds
    /\ tcpListeners = cfg[1].binds_tcp
    /\ entered = TRUE
    /\ serveResult = <<>>
    /\ panicAt = "none"
    /\ exitCode = <<>>
    /\ cache = EmptyCache
    /\ last = <<>>

\* a request decoded by a registered socket goes through the whole chain
Dispatch ==
    /\ pc = "serving"
    /\ Len(udpSockets) + Len(tcpListeners) > 0
    /\ \E name \in Names, up \in UpstreamOutcomes, victim \in Names :
         LET r == Run(middleware[1], 1, cfg[1], name, up, victim, cache)
         IN  /\ cache' = r.cache
             /\ last' = <<[name |-> name,
                           fresh |-> name \in Fresh(cache),
                           trace |-> r.trace,
                           by |-> r.by,
                           rcode |-> r.rcode,
                           upstream |-> r.upstream,
                           lookup |-> r.lookup,
                           inserted |-> r.inserted,
                           logged |-> r.logged]>>
    /\ UNCHANGED startupVars

\* one clock tick: every entry's remaining TTL drops by one
Tick ==
    /\ pc = "serving"
    /\ Fresh(cache) # {}
    /\ cache' = [n \in Names |->
                   IF cache[n].ttl > 1
                   THEN [cache[n] EXCEPT !.ttl = @ - 1]
                   ELSE [ttl |-> 0, rcode |-> "NOERROR"]]
    /\ UNCHANGED <<last>>
    /\ UNCHANGED startupVars

NextServe == Dispatch \/ Tick

SpecServe == InitServe /\ [][NextServe]_vars

(***************************************************************************)
(* The claims.                                                             *)
(***************************************************************************)
\* the place of each stage in the ordering the specification fixes
StageRank(s) ==
    CASE s = "Audit" -> 1
      [] s = "Zone" -> 2
      [] s = "Address" -> 3
      [] s = "Cache" -> 4
      [] s = "SpeedTest" -> 5
      [] s = "NameServer" -> 6

InSpecOrder(ch) ==
    \A i, j \in 1..Len(ch) : i < j => StageRank(ch[i]) < StageRank(ch[j])

Invoked(s) == last # <<>> /\ s \in Range(last[1].trace)

\* C1: for every configuration the chain, while it is being built and once
\* it is built, is an order-preserving subsequence of Audit, Zone, Address,
\* Cache, SpeedTest, NameServer: ranks strictly increase along it, so no two
\* stages are in the opposite order and none appears twice.
C1_ChainInSpecOrder ==
    /\ InSpecOrder(middleware_builder)
    /\ middleware # <<>> => InSpecOrder(middleware[1])

\* C1 witness: a configuration enabling every stage has been built.
C1_Witness ==
    /\ middleware # <<>>
    /\ Len(middleware[1]) = 6
    /\ server

\* C2: the built chain holds NameServer exactly once, as its last stage, and
\* a request that neither Zone, Address nor Cache answers goes through every
\* stage of the chain and is answered by NameServer with one upstream query.
C2_NameServerLast ==
    LET ch == middleware[1]
    IN  /\ Len(ch) >= 1
        /\ ch[Len(ch)] = "NameServer"
        /\ Cardinality({i \in 1..Len(ch) : ch[i] = "NameServer"}) = 1
        /\ (last # <<>> /\ last[1].by \notin {"Zone", "Address", "Cache"})
             => /\ last[1].by = "NameServer"
                /\ last[1].trace = ch
                /\ last[1].upstream = 1

\* C2 witness: a request went down a chain of all six stages to NameServer.
C2_Witness ==
    /\ last # <<>>
    /\ last[1].by = "NameServer"
    /\ Len(last[1].trace) = 6

\* C3 as stated: a request whose name has an address rule is answered by
\* the Address stage, and Cache, SpeedTest and NameServer are not invoked.
C3_Original ==
    (last # <<>> /\ last[1].name \in DOMAIN cfg[1].address_rules)
      => /\ last[1].by = "Address"
         /\ ~Invoked("Cache") /\ ~Invoked("SpeedTest") /\ ~Invoked("NameServer")
         /\ last[1].upstream = 0

\* C3 amended: a request whose name has an address rule is answered by the
\* Address stage unless the Zone stage, which runs before it, serves that
\* name and answers first; either way Cache, SpeedTest and NameServer are
\* not invoked and no upstream query is made, whatever optional stages the
\* chain has.
C3_AddressShortCircuits ==
    (last # <<>> /\ last[1].name \in DOMAIN cfg[1].address_rules)
      => /\ last[1].by =
              (IF last[1].name \in ZoneNames THEN "Zone" ELSE "Address")
         /\ ~Invoked("Cache") /\ ~Invoked("SpeedTest") /\ ~Invoked("NameServer")
         /\ last[1].upstream = 0

\* C3 witness: a blocked name was answered by Address in a chain that also
\* has Cache and SpeedTest.
C3_Witness ==
    /\ last # <<>>
    /\ last[1].by = "Address"
    /\ last[1].rcode = "NXDOMAIN"
    /\ "Cache" \in Range(middleware[1])
    /\ "SpeedTest" \in Range(middleware[1])

C6_ChainBuiltOnceBeforeServer ==
    [][/\ builds' <= 1
       /\ middleware # <<>> => middleware' = middleware
       /\ server' => /\ builds' = 1
                     /\ middleware' = <<BuildChain(cfg'[1])>>
       /\ Len(udpSockets') + Len(tcpListeners') > 0 => server']_vars

\* C6 witness: the server is serving on a UDP socket and a TCP listener.
C6_Witness ==
    /\ pc = "serving"
    /\ udpSockets # <<>>
    /\ tcpListeners # <<>>
    /\ builds = 1

C8_Original ==
    /\ panicAt \in {"udp_bind", "tcp_bind"} => exitCode = <<2>>
    /\ serveResult = <<"Ok">> => exitCode = <<0>>

\* C8 amended: a failed bind panics, so the process ends with Rust's panic
\* status 101 and never with 2; a clean shutdown of the serving loop ends
\* it with exit code 0.
C8_ExitCodes ==
    /\ panicAt \in {"udp_bind", "tcp_bind"} => exitCode = <<PanicExitCode>>
    /\ serveResult = <<"Ok">> => exitCode = <<0>>
    /\ exitCode # <<2>>

\* C8 witness: a UDP bind failed after an earlier one succeeded.
C8_Witness ==
    /\ panicAt = "udp_bind"
    /\ udpSockets # <<>>
    /\ exitCode = <<PanicExitCode>>

\* C9: block_until_done is entered only with every configured UDP address
\* and every configured TCP address bound and registered, TCP after all of
\* UDP; a failed bind ends the process, which then never enters it.
C9_BindFailureFatal ==
    /\ entered => /\ udpSockets = cfg[1].binds
                  /\ tcpListeners = cfg[1].binds_tcp
    /\ tcpListeners # <<>> => udpSockets = cfg[1].binds
    /\ panicAt \in {"udp_bind", "tcp_bind"} => /\ pc = "panicked"
                                               /\ ~entered

\* C9 witness: a TCP bind failed after UDP and TCP addresses were bound.
C9_Witness ==
    /\ panicAt = "tcp_bind"
    /\ udpSockets # <<>>
    /\ tcpListeners # <<>>
    /\ ~entered

\* C10: the stages of the built chain are exactly those the configuration
\* asks for: Audit iff audit_enable and audit_file is set, Address iff
\* address_rules is non-empty, Cache iff cache_size > 0, SpeedTest iff
\* speed_check_mode is non-empty, Zone and NameServer always.
C10_StagesFollowConfig ==
    middleware # <<>>
      => LET has(s) == s \in Range(middleware[1])
             c == cfg[1]
         IN  /\ has("Audit") <=> (c.audit_enable /\ Len(c.audit_file) = 1)
             /\ has("Zone")
             /\ has("Address") <=> c.address_rules # NoRules
             /\ has("Cache") <=> c.cache_size > 0
             /\ has("SpeedTest") <=> Len(c.speed_check_mode) > 0
             /\ has("NameServer")

\* C10 witness: audit_enable without audit_file, and no Audit stage.
C10_Witness ==
    /\ middleware # <<>>
    /\ cfg[1].audit_enable
    /\ cfg[1].audit_file = <<>>
    /\ "Audit" \notin Range(middleware[1])
    /\ Len(middleware[1]) = 5

====
